---- MODULE Spec2Model ----
(***************************************************************************)
(* Classroom / session lifecycle of swerks-socket.                         *)
(*                                                                         *)
(* The model follows ClassRoomService (src/src/app.ts, lines 74-333): the  *)
(* three Mongo collections are sequences whose index is the document _id,  *)
(* and every service method is one action that runs the whole method.      *)
(* A Date field is modelled by whether it is set: no code compares dates.  *)
(* Participant names and classroom names are never read by any decision    *)
(* of the service and are left out.                                        *)
(*                                                                         *)
(* SocketService (src/src/interfaces/classSessions.interface.ts, lines     *)
(* 46-268) is the gateway: each socket event handler is one action that    *)
(* runs the handler to its end, the service call it makes included.        *)
(***************************************************************************)
EXTENDS Integers, Sequences, FiniteSets, TLC

(* ------------------------------ bounds -------------------------------- *)
\* the size of the store: its classrooms, its sessions and the entries of
\* their history lists
MaxStore == 6

(* ----------------------------- vocabulary ----------------------------- *)
TEACHER == "teacher"
STUDENT == "student"
UserRole == {TEACHER, STUDENT}

Emails == {"a@x", "b@x"}

\* an absent reference: undefined / null in the source
NoId == 0
\* a Date field: unset, or the value of a new Date()
NoDate == "unset"
SomeDate == "date"

NoError == "ok"
ErrClassRoomNotFound == "Class Room does not exist"
ErrInactive == "Class is not active. you cannot join."
ErrDuplicate == "Participant already in classroom"
ErrSessionNotExist == "Session does not exist"
ErrSessionNotFound == "Session not found"
ErrNoClassroom == "Classroom not associated with session"
ErrInSession == "User is already in this session somewhere"

VARIABLES
    classRooms,     \* ClassRoom collection: _id -> document
    participants,   \* Participant collection: _id -> document
    sessions,       \* ClassSession collection: _id -> document
    last,           \* the last service call: the method and the error it threw
    sockets,        \* gateway: socket id -> connected?, socket.data
    handled,        \* gateway: the last socket event handled and what it emitted
    procs           \* service calls in flight: where each is, and its locals

vars == <<classRooms, participants, sessions, last, sockets, handled, procs>>
store == <<classRooms, participants, sessions>>
gateway == <<sockets, handled>>

(* ------------------------------ helpers ------------------------------- *)
Range(s) == {s[i] : i \in DOMAIN s}
Count(s, x) == Cardinality({i \in DOMAIN s : s[i] = x})

RECURSIVE SumLen(_)
SumLen(lists) ==
    IF lists = <<>> THEN 0 ELSE Len(Head(lists)) + SumLen(Tail(lists))

StoreSize ==
    Len(classRooms) + Len(sessions)
    + SumLen([r \in DOMAIN classRooms |-> classRooms[r].participantHistory])
    + SumLen([x \in DOMAIN sessions |-> sessions[x].participantsHistory])

Call(op, err) == [op |-> op, err |-> err]

\* the defaults the ClassRoom schema gives a new document (the schema is not
\* in the sources; both values of isActive are taken)
IsActiveDefault == BOOLEAN

NewClassRoom(active) ==
    [isActive |-> active, teacherParticipant |-> <<>>,
     studentParticipant |-> <<>>, participantHistory |-> <<>>,
     eventLog |-> <<>>]

\* Model.findById: the document or null
ClassRoomExists(roomId) == roomId \in DOMAIN classRooms
SessionExists(sessionId) == sessionId \in DOMAIN sessions

\* Participant.findOne({ email }): the first matching _id, or NoId
ParticipantFindOne(email) ==
    IF \E i \in DOMAIN participants : participants[i].email = email
    THEN CHOOSE i \in DOMAIN participants :
            /\ participants[i].email = email
            /\ \A j \in DOMAIN participants :
                  participants[j].email = email => i <= j
    ELSE NoId

\* ClassRoom.findParticipantByEmail(email): called with the email alone
CurrentMembers(room) ==
    Range(room.teacherParticipant) \cup Range(room.studentParticipant)

ClassRoomFindParticipantByEmail(email) ==
    \E r \in DOMAIN classRooms :
        \E p \in CurrentMembers(classRooms[r]) :
            p \in DOMAIN participants /\ participants[p].email = email

(* ------------------------------- create ------------------------------- *)
Create ==
    /\ StoreSize < MaxStore
    /\ \E active \in IsActiveDefault :
          classRooms' = Append(classRooms, NewClassRoom(active))
    /\ last' = Call("create", NoError)
    /\ UNCHANGED <<participants, sessions>>
    /\ UNCHANGED <<gateway, procs>>

(* ---------------------------- joinClassroom --------------------------- *)
\* mutants of the isActive check: the negation lost, the role test lost
StudentBlockedWhenActive(role, classroom) == role = STUDENT /\ classroom.isActive
AnyoneBlocked(role, classroom) == ~classroom.isActive

StudentBlocked(role, classroom) == role = STUDENT /\ ~classroom.isActive

AlreadyInClassroom(getParticipant, email) ==
    getParticipant # NoId /\ ClassRoomFindParticipantByEmail(email)

\* mutant: the missing room reported with the session message
JoinClassroomErrorWrongMessage(roomId, role, email) ==
    IF ~ClassRoomExists(roomId) THEN ErrSessionNotExist
    ELSE IF StudentBlocked(role, classRooms[roomId]) THEN ErrInactive
    ELSE IF AlreadyInClassroom(ParticipantFindOne(email), email) THEN ErrDuplicate
    ELSE NoError

JoinClassroomError(roomId, role, email) ==
    IF ~ClassRoomExists(roomId) THEN ErrClassRoomNotFound
    ELSE IF StudentBlocked(role, classRooms[roomId]) THEN ErrInactive
    ELSE IF AlreadyInClassroom(ParticipantFindOne(email), email) THEN ErrDuplicate
    ELSE NoError

\* the _id of the Participant joinClassroom returns: the record found by
\* email, or the one it creates
JoinedParticipant(email) ==
    IF ParticipantFindOne(email) = NoId
    THEN Len(participants) + 1
    ELSE ParticipantFindOne(email)

\* mutant: every participant pushed to the student list
JoinPushStudentOnly(classroom, role, pid) ==
    [classroom EXCEPT
        !.studentParticipant = Append(@, pid),
        !.participantHistory = Append(@, pid)]

JoinPushOnce(classroom, role, pid) ==
    IF pid \in CurrentMembers(classroom)
    THEN classroom
    ELSE [classroom EXCEPT
             !.teacherParticipant =
                 IF role = TEACHER THEN Append(@, pid) ELSE @,
             !.studentParticipant =
                 IF role = TEACHER THEN @ ELSE Append(@, pid),
             !.participantHistory = Append(@, pid)]

JoinPush(classroom, role, pid) ==
    [classroom EXCEPT
        !.teacherParticipant =
            IF role = TEACHER THEN Append(@, pid) ELSE @,
        !.studentParticipant =
            IF role = TEACHER THEN @ ELSE Append(@, pid),
        !.participantHistory = Append(@, pid)]

JoinClassroomCall(roomId, role, email) ==
    LET err == JoinClassroomError(roomId, role, email)
        pid == JoinedParticipant(email)
    IN  /\ last' = Call("joinClassroom", err)
        /\ IF err # NoError
           THEN UNCHANGED <<classRooms, participants, sessions>>
           ELSE /\ StoreSize < MaxStore
                /\ participants' =
                      IF pid \notin DOMAIN participants
                      THEN Append(participants, [email |-> email, role |-> role])
                      ELSE participants
                /\ classRooms' =
                      [classRooms EXCEPT ![roomId] = JoinPush(@, role, pid)]
                /\ UNCHANGED sessions

JoinClassroom ==
    /\ \E roomId \in DOMAIN classRooms \cup {NoId}, role \in UserRole, email \in Emails :
           JoinClassroomCall(roomId, role, email)
    /\ UNCHANGED <<gateway, procs>>

(* ------------------------------ startClass --------------------------- *)
\* mutant: the history left unseeded
NewSessionNoHistory(roomId, teacherId) ==
    [classRoomId |-> roomId,
     currentParticipants |-> <<teacherId>>,
     participantsHistory |-> <<>>,
     startedAt |-> SomeDate, endedAt |-> NoDate, eventLog |-> <<>>]

NewSession(roomId, teacherId) ==
    [classRoomId |-> roomId,
     currentParticipants |-> <<teacherId>>,
     participantsHistory |-> <<teacherId>>,
     startedAt |-> SomeDate, endedAt |-> NoDate, eventLog |-> <<>>]

StartClassCall(roomId, teacherId) ==
    /\ StoreSize + 1 < MaxStore
    /\ sessions' = Append(sessions, NewSession(roomId, teacherId))
    /\ last' = Call("startClass", NoError)
    /\ UNCHANGED <<classRooms, participants>>

StartClass ==
    /\ \E roomId \in DOMAIN classRooms \cup {NoId}, teacherId \in DOMAIN participants :
           StartClassCall(roomId, teacherId)
    /\ UNCHANGED <<gateway, procs>>

(* ------------------------------- endClass ----------------------------- *)
\* mutant of EndSession: the live participants are kept
EndSessionKeepsParticipants(session) ==
    [session EXCEPT !.endedAt = SomeDate]

EndSession(session) ==
    [session EXCEPT !.currentParticipants = <<>>, !.endedAt = SomeDate]

EndClassCall(sessionId) ==
    IF ~SessionExists(sessionId)
    THEN /\ last' = Call("endClass", ErrSessionNotExist)
         /\ UNCHANGED <<classRooms, participants, sessions>>
    ELSE /\ sessions' = [sessions EXCEPT ![sessionId] = EndSession(@)]
         /\ last' = Call("endClass", NoError)
         /\ UNCHANGED <<classRooms, participants>>

EndClass ==
    /\ \E sessionId \in DOMAIN sessions \cup {NoId} : EndClassCall(sessionId)
    /\ UNCHANGED <<gateway, procs>>

(* --------------------------- leaveClassSession ------------------------ *)
\* currentParticipants.filter((participant) => participant != userId)
RemoveParticipant(list, userId) ==
    SelectSeq(list, LAMBDA participant : participant # userId)

\* mutant of TeacherLeft: the teacher's leave does not end the session
TeacherLeftNoEnd(session, role) ==
    IF role = TEACHER
    THEN [session EXCEPT !.currentParticipants = <<>>]
    ELSE session

TeacherLeft(session, role) ==
    IF role = TEACHER
    THEN [session EXCEPT !.endedAt = SomeDate, !.currentParticipants = <<>>]
    ELSE session

LeaveSession(session, userId, role) ==
    TeacherLeft(
        [session EXCEPT !.currentParticipants = RemoveParticipant(@, userId)],
        role)

LeaveClassSessionCall(sessionId, userId, role) ==
    IF ~SessionExists(sessionId)
    THEN /\ last' = Call("leaveClassSession", ErrSessionNotExist)
         /\ UNCHANGED <<classRooms, participants, sessions>>
    ELSE /\ sessions' =
               [sessions EXCEPT ![sessionId] = LeaveSession(@, userId, role)]
         /\ last' = Call("leaveClassSession", NoError)
         /\ UNCHANGED <<classRooms, participants>>

LeaveClassSession ==
    /\ \E sessionId \in DOMAIN sessions \cup {NoId},
          userId \in DOMAIN participants \cup {NoId}, role \in UserRole :
           LeaveClassSessionCall(sessionId, userId, role)
    /\ UNCHANGED <<gateway, procs>>

(* ----------------------- joinSessionViaSessionList -------------------- *)
\* The payload is an IParticipants: its email and role, and the document
\* identity (id, _id) when the caller holds the participant's document.  A
\* payload without identity has id and _id undefined; pushing the undefined
\* id stores a null entry.  A payload with identity for an email that has no
\* record carries the _id that Participant.create gives the new record.
PayloadId(email, hasId) == IF hasId THEN JoinedParticipant(email) ELSE NoId

\* list.some((p) => p?.toString() == participant._id)
InList(list, oid) == \E i \in DOMAIN list : list[i] = oid

JoinSessionError(sessionId, email, oid) ==
    IF ~SessionExists(sessionId) THEN ErrSessionNotFound
    ELSE IF ~ClassRoomExists(sessions[sessionId].classRoomId) THEN ErrNoClassroom
    ELSE IF ParticipantFindOne(email) = NoId THEN NoError
    ELSE IF InList(sessions[sessionId].currentParticipants, oid) THEN ErrInSession
    ELSE NoError

AddToClassRoom(classroom, id) ==
    [classroom EXCEPT !.studentParticipant = Append(@, id),
                      !.participantHistory = Append(@, id)]

\* mutant of AddToSession: the history is not written
AddToSessionNoHistory(session, id) ==
    [session EXCEPT !.currentParticipants = Append(@, id)]

AddToSession(session, id) ==
    [session EXCEPT !.currentParticipants = Append(@, id),
                    !.participantsHistory = Append(@, id)]

\* mutant of JoinSessionClassRoom: the student list is not consulted
JoinSessionClassRoomAlways(classroom, isNew, id) ==
    AddToClassRoom(classroom, id)

\* the classroom is touched unless the participant exists and is already
\* among its students
JoinSessionClassRoom(classroom, isNew, id) ==
    IF isNew \/ ~InList(classroom.studentParticipant, id)
    THEN AddToClassRoom(classroom, id)
    ELSE classroom

JoinSessionViaSessionListCall(sessionId, email, role, hasId) ==
    LET id == PayloadId(email, hasId)
        err == JoinSessionError(sessionId, email, id)
        isNew == ParticipantFindOne(email) = NoId
        roomId == sessions[sessionId].classRoomId
    IN  /\ last' = Call("joinSessionViaSessionList", err)
        /\ IF err # NoError
           THEN UNCHANGED <<classRooms, participants, sessions>>
           ELSE /\ StoreSize + 1 < MaxStore
                /\ participants' =
                      IF isNew
                      THEN Append(participants, [email |-> email, role |-> role])
                      ELSE participants
                /\ classRooms' =
                      [classRooms EXCEPT
                          ![roomId] = JoinSessionClassRoom(@, isNew, id)]
                /\ sessions' =
                      [sessions EXCEPT ![sessionId] = AddToSession(@, id)]

JoinSessionViaSessionList ==
    /\ \E sessionId \in DOMAIN sessions \cup {NoId}, email \in Emails, role \in UserRole,
          hasId \in BOOLEAN :
           JoinSessionViaSessionListCall(sessionId, email, role, hasId)
    /\ UNCHANGED <<gateway, procs>>

(* ----------------------------- leaveClassRoom ------------------------- *)
\* list.filter((participant: string) => participant === userId)
KeepParticipant(list, userId) ==
    SelectSeq(list, LAMBDA participant : participant = userId)

\* the classroom the method returns; it is not saved
LeaveRoom(classroom, userId, role) ==
    IF role = STUDENT
    THEN [classroom EXCEPT !.studentParticipant = KeepParticipant(@, userId)]
    ELSE [classroom EXCEPT !.teacherParticipant = KeepParticipant(@, userId)]

LeaveClassRoomCall(roomId, userId, role) ==
    /\ last' = Call("leaveClassRoom",
                    IF ClassRoomExists(roomId) THEN NoError ELSE ErrSessionNotExist)
    /\ UNCHANGED <<classRooms, participants, sessions>>

LeaveClassRoom ==
    /\ \E roomId \in DOMAIN classRooms \cup {NoId},
          userId \in DOMAIN participants \cup {NoId}, role \in UserRole :
           LeaveClassRoomCall(roomId, userId, role)
    /\ UNCHANGED <<gateway, procs>>

(* ------------- activeSessionsList, activeSessionsListWithRoomId ------- *)
\* endedAt: { $exists: false }
EndedAtMissing(session) == session.endedAt = NoDate

\* ClassSession.find(...): the _ids of the matching sessions, in store order
ActiveSessions ==
    SelectSeq([x \in DOMAIN sessions |-> x],
              LAMBDA x : EndedAtMissing(sessions[x]))

ActiveSessionsWithRoomId(roomId) ==
    SelectSeq([x \in DOMAIN sessions |-> x],
              LAMBDA x : EndedAtMissing(sessions[x])
                         /\ sessions[x].classRoomId = roomId)

ActiveSessionsList ==
    /\ last' = Call("activeSessionsList", NoError)
    /\ UNCHANGED <<classRooms, participants, sessions>>
    /\ UNCHANGED <<gateway, procs>>

ActiveSessionsListWithRoomId ==
    /\ \E roomId \in DOMAIN classRooms \cup {NoId} : TRUE
    /\ last' = Call("activeSessionsListWithRoomId", NoError)
    /\ UNCHANGED <<classRooms, participants, sessions>>
    /\ UNCHANGED <<gateway, procs>>

(* ------------------------- gateway: SocketService --------------------- *)
\* A handler reads and writes the data of its own socket only, and runs to
\* completion before the next one: one socket slot, taken again by a new
\* connection after a disconnect, goes through every socket.data a socket
\* can hold.
SocketIds == {"s1"}

\* a socket.data field that was never set or was deleted
NoRole == "undefined"
NoData == [userId |-> NoId, roomId |-> NoId, role |-> NoRole, sessionId |-> NoId]

ErrNotInClassroom == "Not in a classroom"
ErrOnlyTeacherStart == "Only teachers can start the class"
ErrOnlyTeacherEnd == "Only teachers can end the class"

\* what one run of a handler did: the service method it invoked ("none" when
\* it returned before any), the events emitted to the socket itself and the
\* events broadcast to a room, and the message of the error event
Handled(handler, socket, core, toSocket, toRoom, message) ==
    [handler |-> handler, socket |-> socket, core |-> core,
     toSocket |-> toSocket, toRoom |-> toRoom, message |-> message]

\* emitError(socket, message) and nothing else
Refused(handler, socket, core, message) ==
    Handled(handler, socket, core, {"error"}, {}, message)

\* the io.on('connection') callback: a new socket, its data empty
Connect(s) ==
    /\ ~sockets[s].connected
    /\ sockets' = [sockets EXCEPT ![s] = [connected |-> TRUE, data |-> NoData]]
    /\ handled' = Handled("connection", s, "none", {}, {}, NoError)
    /\ UNCHANGED <<classRooms, participants, sessions, last>>

HandleJoinClassroom(s, roomId, role, email) ==
    /\ sockets[s].connected
    /\ JoinClassroomCall(roomId, role, email)
    /\ IF last'.err = NoError
       THEN /\ sockets' =
                 [sockets EXCEPT
                     ![s].data.userId = JoinedParticipant(email),
                     ![s].data.roomId = roomId,
                     ![s].data.role = participants'[JoinedParticipant(email)].role]
            /\ handled' = Handled("join-classroom", s, "joinClassroom",
                                  {"join-success"}, {"classroom-updated"}, NoError)
       ELSE /\ UNCHANGED sockets
            /\ handled' = Refused("join-classroom", s, "joinClassroom", last'.err)

\* clearSocketData: sessionId is not among the deleted fields
ClearSocketData(data) ==
    [data EXCEPT !.userId = NoId, !.roomId = NoId, !.role = NoRole]

HandleLeaveClassroom(s) ==
    LET data == sockets[s].data
    IN  /\ sockets[s].connected
        /\ IF data.roomId = NoId \/ data.userId = NoId
           THEN /\ handled' = Refused("leave-classroom", s, "none", ErrNotInClassroom)
                /\ UNCHANGED <<classRooms, participants, sessions, last, sockets>>
           ELSE /\ LeaveClassSessionCall(data.sessionId, data.userId, NoRole)
                /\ IF last'.err = NoError
                   THEN /\ sockets' = [sockets EXCEPT ![s].data = ClearSocketData(@)]
                        /\ handled' =
                              Handled("leave-classroom", s, "leaveClassSession",
                                      {"leave-success"}, {"classroom-session-updated"},
                                      NoError)
                   ELSE /\ UNCHANGED sockets
                        /\ handled' = Refused("leave-classroom", s,
                                              "leaveClassSession", last'.err)

\* mutant of ValidateTeacherPermission: the role is not looked at
ValidateAnyRole(data) ==
    data.roomId # NoId /\ data.userId # NoId

ValidateTeacherPermission(data) ==
    data.roomId # NoId /\ data.userId # NoId /\ data.role = TEACHER

HandleStartClass(s) ==
    LET data == sockets[s].data
    IN  /\ sockets[s].connected
        /\ IF ~ValidateTeacherPermission(data)
           THEN /\ handled' = Refused("start-class", s, "none", ErrOnlyTeacherStart)
                /\ UNCHANGED <<classRooms, participants, sessions, last, sockets>>
           ELSE /\ StartClassCall(data.roomId, data.userId)
                /\ sockets' = [sockets EXCEPT ![s].data.sessionId = Len(sessions')]
                /\ handled' =
                      Handled("start-class", s, "startClass", {},
                              {"class-session-updated", "class-room-created"}, NoError)

HandleEndClass(s) ==
    LET data == sockets[s].data
    IN  /\ sockets[s].connected
        /\ UNCHANGED sockets
        /\ IF ~ValidateTeacherPermission(data)
           THEN /\ handled' = Refused("end-class", s, "none", ErrOnlyTeacherEnd)
                /\ UNCHANGED <<classRooms, participants, sessions, last>>
           ELSE /\ EndClassCall(data.sessionId)
                /\ handled' =
                      IF last'.err = NoError
                      THEN Handled("end-class", s, "endClass", {},
                                   {"class-session-updated", "class-session-ended"},
                                   NoError)
                      ELSE Refused("end-class", s, "endClass", last'.err)

\* mutant of HoldsIdentity: the sessionId is not looked at
HoldsRoomAndUser(data) ==
    data.roomId # NoId /\ data.userId # NoId

\* socket.data.roomId && socket.data.userId && socket.data.sessionId
HoldsIdentity(data) ==
    data.roomId # NoId /\ data.userId # NoId /\ data.sessionId # NoId

HandleDisconnect(s) ==
    LET data == sockets[s].data
    IN  /\ sockets[s].connected
        /\ sockets' = [sockets EXCEPT ![s].connected = FALSE]
        /\ IF HoldsIdentity(data)
           THEN /\ LeaveClassSessionCall(data.sessionId, data.userId, NoRole)
                /\ handled' =
                      Handled("disconnect", s, "leaveClassSession", {},
                              IF last'.err = NoError
                              THEN {"classroom-session-updated"} ELSE {},
                              NoError)
           ELSE /\ handled' = Handled("disconnect", s, "none", {}, {}, NoError)
                /\ UNCHANGED <<classRooms, participants, sessions, last>>

(* ------------- service calls interleaved at their store calls --------- *)
\* Every await of a service method is one store call; between two of them
\* another call may run.  One request context runs its call store call by
\* store call and keeps the call's arguments and what it has read so far;
\* the calls of other requests run whole in between.  A save writes what the
\* call changed on its document: a push is appended to the stored array, an
\* assignment replaces the stored value.
Procs == {"p1"}

Idle ==
    [op |-> "idle", pc |-> "idle", roomId |-> NoId, sessionId |-> NoId,
     email |-> "none", role |-> NoRole, id |-> NoId,
     inSession |-> FALSE, inClassroom |-> FALSE, loaded |-> <<>>]

\* the entries of history lists that the calls in flight may still push
Reserved(p) ==
    IF procs[p].op = "joinClassroom" THEN 1
    ELSE IF procs[p].op = "joinSessionViaSessionList" THEN 2
    ELSE 0

RECURSIVE SumReserved(_)
SumReserved(ps) ==
    IF ps = {} THEN 0
    ELSE LET p == CHOOSE q \in ps : TRUE
         IN  Reserved(p) + SumReserved(ps \ {p})

RoomFor(need) == StoreSize + SumReserved(Procs) + need <= MaxStore

\* the call returns or throws
Finish(p, op, err) ==
    /\ last' = Call(op, err)
    /\ procs' = [procs EXCEPT ![p] = Idle]

Goto(p, pc) == procs' = [procs EXCEPT ![p].pc = pc]

At(p, op, pc) == procs[p].op = op /\ procs[p].pc = pc

\* the Participant collection's key: an insert of an email that has a record
\* is refused by the store
ErrDuplicateKey == "E11000 duplicate key error"

\* mutant of EmailTaken: the collection has no key on the email
EmailNeverTaken(email) == FALSE

EmailTaken(email) == \E i \in DOMAIN participants : participants[i].email = email

(* joinClassroom *)
JoinClassroomFindById(p, roomId, role, email) ==
    /\ procs[p] = Idle
    /\ RoomFor(1)
    /\ UNCHANGED <<classRooms, participants, sessions>>
    /\ IF JoinClassroomError(roomId, role, email) \in {ErrClassRoomNotFound, ErrInactive}
       THEN Finish(p, "joinClassroom", JoinClassroomError(roomId, role, email))
       ELSE /\ procs' = [procs EXCEPT ![p] =
                    [Idle EXCEPT !.op = "joinClassroom", !.pc = "findOne",
                                 !.roomId = roomId, !.role = role, !.email = email]]
            /\ UNCHANGED last

JoinClassroomFindOne(p) ==
    /\ At(p, "joinClassroom", "findOne")
    /\ LET getParticipant == ParticipantFindOne(procs[p].email)
       IN  procs' = [procs EXCEPT
                        ![p].id = getParticipant,
                        ![p].pc = IF getParticipant # NoId
                                  THEN "findParticipantByEmail"
                                  ELSE "saveParticipant"]
    /\ UNCHANGED <<classRooms, participants, sessions, last>>

JoinClassroomFindParticipantByEmail(p) ==
    /\ At(p, "joinClassroom", "findParticipantByEmail")
    /\ UNCHANGED <<classRooms, participants, sessions>>
    /\ IF AlreadyInClassroom(procs[p].id, procs[p].email)
       THEN Finish(p, "joinClassroom", ErrDuplicate)
       ELSE Goto(p, "saveClassroom") /\ UNCHANGED last

JoinClassroomSaveParticipant(p) ==
    /\ At(p, "joinClassroom", "saveParticipant")
    /\ UNCHANGED <<classRooms, sessions>>
    /\ IF EmailTaken(procs[p].email)
       THEN /\ Finish(p, "joinClassroom", ErrDuplicateKey)
            /\ UNCHANGED participants
       ELSE /\ Len(participants) < MaxStore
            /\ participants' =
                  Append(participants,
                         [email |-> procs[p].email, role |-> procs[p].role])
            /\ procs' = [procs EXCEPT ![p].id = Len(participants) + 1,
                                      ![p].pc = "saveClassroom"]
            /\ UNCHANGED last

JoinClassroomSaveClassroom(p) ==
    /\ At(p, "joinClassroom", "saveClassroom")
    /\ classRooms' =
          [classRooms EXCEPT
              ![procs[p].roomId] = JoinPush(@, procs[p].role, procs[p].id)]
    /\ Finish(p, "joinClassroom", NoError)
    /\ UNCHANGED <<participants, sessions>>

(* leaveClassSession *)
ErrVersion == "VersionError"

\* the stored arrays are no longer the ones the call loaded
ChangedSince(stored, loaded) ==
    \/ stored.currentParticipants # loaded.currentParticipants
    \/ stored.participantsHistory # loaded.participantsHistory

\* mutant of LeaveSaved: the whole loaded document is written back
LeaveSavedWholeDocument(stored, loaded, userId, role) ==
    LeaveSession(loaded, userId, role)

\* mutant of LeaveSaved: the filter is applied to the stored array
LeaveSavedFromStore(stored, loaded, userId, role) ==
    LeaveSession(stored, userId, role)

\* the stored session after the save: currentParticipants is assigned from
\* the array that was loaded, endedAt only by a teacher; nothing else is
\* written
LeaveSaved(stored, loaded, userId, role) ==
    TeacherLeft(
        [stored EXCEPT !.currentParticipants =
                          RemoveParticipant(loaded.currentParticipants, userId)],
        role)

LeaveClassSessionFindById(p, sessionId, userId, role) ==
    /\ procs[p] = Idle
    /\ UNCHANGED <<classRooms, participants, sessions>>
    /\ IF ~SessionExists(sessionId)
       THEN Finish(p, "leaveClassSession", ErrSessionNotExist)
       ELSE /\ procs' = [procs EXCEPT ![p] =
                    [Idle EXCEPT !.op = "leaveClassSession", !.pc = "save",
                                 !.sessionId = sessionId, !.id = userId,
                                 !.role = role, !.loaded = sessions[sessionId]]]
            /\ UNCHANGED last

\* session.save(): an array assigned as a whole is written under the
\* document's version, which every array write advances; when the stored
\* arrays changed after the load the save either fails with a VersionError
\* or, where the version is not checked, overwrites
LeaveClassSessionSave(p) ==
    LET sessionId == procs[p].sessionId
        loaded == procs[p].loaded
        stored == sessions[sessionId]
    IN  /\ At(p, "leaveClassSession", "save")
        /\ UNCHANGED <<classRooms, participants>>
        /\ \/ /\ sessions' =
                    [sessions EXCEPT
                        ![sessionId] =
                            LeaveSaved(stored, loaded, procs[p].id, procs[p].role)]
              /\ Finish(p, "leaveClassSession", NoError)
           \/ /\ ChangedSince(stored, loaded)
              /\ UNCHANGED sessions
              /\ Finish(p, "leaveClassSession", ErrVersion)

(* joinSessionViaSessionList *)
SessionJoinFindById(p, sessionId, email, role, hasId) ==
    /\ procs[p] = Idle
    /\ RoomFor(2)
    /\ UNCHANGED <<classRooms, participants, sessions>>
    /\ IF ~SessionExists(sessionId)
       THEN Finish(p, "joinSessionViaSessionList", ErrSessionNotFound)
       ELSE IF ~ClassRoomExists(sessions[sessionId].classRoomId)
       THEN Finish(p, "joinSessionViaSessionList", ErrNoClassroom)
       ELSE LET oid == PayloadId(email, hasId)
                roomId == sessions[sessionId].classRoomId
            IN  /\ procs' = [procs EXCEPT ![p] =
                       [Idle EXCEPT
                           !.op = "joinSessionViaSessionList", !.pc = "findOne",
                           !.sessionId = sessionId, !.roomId = roomId,
                           !.email = email, !.role = role, !.id = oid,
                           !.inSession =
                               InList(sessions[sessionId].currentParticipants, oid),
                           !.inClassroom =
                               InList(classRooms[roomId].studentParticipant, oid)]]
                /\ UNCHANGED last

SessionJoinFindOne(p) ==
    /\ At(p, "joinSessionViaSessionList", "findOne")
    /\ UNCHANGED <<classRooms, participants, sessions>>
    /\ IF ParticipantFindOne(procs[p].email) = NoId
       THEN Goto(p, "create") /\ UNCHANGED last
       ELSE IF procs[p].inSession
       THEN Finish(p, "joinSessionViaSessionList", ErrInSession)
       ELSE /\ Goto(p, IF procs[p].inClassroom THEN "saveSession" ELSE "saveClassroom")
            /\ UNCHANGED last

SessionJoinCreate(p) ==
    /\ At(p, "joinSessionViaSessionList", "create")
    /\ UNCHANGED <<classRooms, sessions>>
    /\ IF EmailTaken(procs[p].email)
       THEN /\ Finish(p, "joinSessionViaSessionList", ErrDuplicateKey)
            /\ UNCHANGED participants
       ELSE /\ Len(participants) < MaxStore
            /\ participants' =
                  Append(participants,
                         [email |-> procs[p].email, role |-> procs[p].role])
            /\ Goto(p, "saveClassroom")
            /\ UNCHANGED last

SessionJoinSaveClassroom(p) ==
    /\ At(p, "joinSessionViaSessionList", "saveClassroom")
    /\ classRooms' =
          [classRooms EXCEPT ![procs[p].roomId] = AddToClassRoom(@, procs[p].id)]
    /\ Goto(p, "saveSession")
    /\ UNCHANGED <<participants, sessions, last>>

SessionJoinSaveSession(p) ==
    /\ At(p, "joinSessionViaSessionList", "saveSession")
    /\ sessions' =
          [sessions EXCEPT ![procs[p].sessionId] = AddToSession(@, procs[p].id)]
    /\ Finish(p, "joinSessionViaSessionList", NoError)
    /\ UNCHANGED <<classRooms, participants>>

(* findParticipantByEmail *)
FindParticipantFindByEmail(p, email, role) ==
    /\ procs[p] = Idle
    /\ UNCHANGED <<classRooms, participants, sessions>>
    /\ IF ParticipantFindOne(email) # NoId
       THEN Finish(p, "findParticipantByEmail", NoError)
       ELSE /\ procs' = [procs EXCEPT ![p] =
                    [Idle EXCEPT !.op = "findParticipantByEmail", !.pc = "create",
                                 !.email = email, !.role = role]]
            /\ UNCHANGED last

FindParticipantCreate(p) ==
    /\ At(p, "findParticipantByEmail", "create")
    /\ UNCHANGED <<classRooms, sessions>>
    /\ IF EmailTaken(procs[p].email)
       THEN /\ Finish(p, "findParticipantByEmail", ErrDuplicateKey)
            /\ UNCHANGED participants
       ELSE /\ Len(participants) < MaxStore
            /\ participants' =
                  Append(participants,
                         [email |-> procs[p].email, role |-> procs[p].role])
            /\ Finish(p, "findParticipantByEmail", NoError)

(* ---------------------------- specification --------------------------- *)
Init ==
    /\ classRooms = <<>>
    /\ participants = <<>>
    /\ sessions = <<>>
    /\ last = Call("none", NoError)
    /\ sockets = [s \in SocketIds |-> [connected |-> FALSE, data |-> NoData]]
    /\ handled = Handled("none", "none", "none", {}, {}, NoError)
    /\ procs = [p \in Procs |-> Idle]

Next ==
    \/ Create
    \/ JoinClassroom
    \/ StartClass
    \/ EndClass
    \/ LeaveClassSession
    \/ JoinSessionViaSessionList
    \/ LeaveClassRoom
    \/ ActiveSessionsList
    \/ ActiveSessionsListWithRoomId

Spec == Init /\ [][Next]_vars

\* the service as driven through the gateway: rooms are created beforehand,
\* every other service call is made by a socket event handler
GatewayNext ==
    \/ Create
    \/ \E s \in SocketIds : Connect(s) /\ UNCHANGED procs
    \/ \E s \in SocketIds, roomId \in DOMAIN classRooms \cup {NoId},
          role \in UserRole, email \in Emails :
           HandleJoinClassroom(s, roomId, role, email) /\ UNCHANGED procs
    \/ \E s \in SocketIds : HandleLeaveClassroom(s) /\ UNCHANGED procs
    \/ \E s \in SocketIds : HandleStartClass(s) /\ UNCHANGED procs
    \/ \E s \in SocketIds : HandleEndClass(s) /\ UNCHANGED procs
    \/ \E s \in SocketIds : HandleDisconnect(s) /\ UNCHANGED procs

GatewaySpec == Init /\ [][GatewayNext]_vars

\* Participant.findByEmail, then Participant.create when there is none
FindParticipantByEmail ==
    /\ \E email \in Emails, role \in UserRole :
           participants' =
              IF ParticipantFindOne(email) = NoId
              THEN Append(participants, [email |-> email, role |-> role])
              ELSE participants
    /\ last' = Call("findParticipantByEmail", NoError)
    /\ UNCHANGED <<classRooms, sessions, gateway, procs>>

\* the races are about one room and one session of it
CreateTheRoom == classRooms = <<>> /\ Create
StartTheSession == sessions = <<>> /\ StartClass

JoinClassroomStep(p) ==
    \/ \E roomId \in DOMAIN classRooms, role \in UserRole, email \in Emails :
           JoinClassroomFindById(p, roomId, role, email)
    \/ JoinClassroomFindOne(p)
    \/ JoinClassroomFindParticipantByEmail(p)
    \/ JoinClassroomSaveParticipant(p)
    \/ JoinClassroomSaveClassroom(p)

SessionJoinStep(p) ==
    \/ \E sessionId \in DOMAIN sessions, email \in Emails,
          role \in UserRole, hasId \in BOOLEAN :
           SessionJoinFindById(p, sessionId, email, role, hasId)
    \/ SessionJoinFindOne(p)
    \/ SessionJoinCreate(p)
    \/ SessionJoinSaveClassroom(p)
    \/ SessionJoinSaveSession(p)

FindParticipantStep(p) ==
    \/ \E email \in Emails, role \in UserRole :
           FindParticipantFindByEmail(p, email, role)
    \/ FindParticipantCreate(p)

LeaveClassSessionStep(p) ==
    \/ \E sessionId \in DOMAIN sessions,
          userId \in DOMAIN participants \cup {NoId}, role \in UserRole :
           LeaveClassSessionFindById(p, sessionId, userId, role)
    \/ LeaveClassSessionSave(p)

\* joins under concurrent requests: one join or lookup runs store call by
\* store call while the calls of other requests run between its steps
JoinRaceNext ==
    \/ CreateTheRoom
    \/ StartTheSession
    \/ JoinClassroom
    \/ JoinSessionViaSessionList
    \/ FindParticipantByEmail
    \/ \E p \in Procs : JoinClassroomStep(p) /\ UNCHANGED gateway
    \/ \E p \in Procs : SessionJoinStep(p) /\ UNCHANGED gateway
    \/ \E p \in Procs : FindParticipantStep(p) /\ UNCHANGED gateway

JoinRaceSpec == Init /\ [][JoinRaceNext]_vars

\* a session under concurrent requests: one leaveClassSession runs store
\* call by store call while the calls of other requests run between its
\* steps
SessionRaceNext ==
    \/ CreateTheRoom
    \/ StartTheSession
    \/ FindParticipantByEmail
    \/ EndClass
    \/ JoinSessionViaSessionList
    \/ \E p \in Procs : LeaveClassSessionStep(p) /\ UNCHANGED gateway

SessionRaceSpec == Init /\ [][SessionRaceNext]_vars

(* ============================== claims ================================ *)
RoomInputs == DOMAIN classRooms \cup {NoId}

\* the email has a Participant record that is in a current list of the room
MemberOf(room, email) ==
    \E p \in DOMAIN participants :
        participants[p].email = email /\ p \in CurrentMembers(room)

JoinEvent(pid) == [type |-> "JOIN", participant |-> pid]
StartEvent(pid) == [type |-> "START", participant |-> pid]
LeaveEvent(pid) == [type |-> "LEAVE", participant |-> pid]
EndEvent(pid) == [type |-> "END", participant |-> pid]

\* C1: a STUDENT joinClassroom to a room with isActive = false always fails
\* with 'Class is not active. you cannot join.', creates no Participant and
\* leaves every classroom list as it was.
C1_InactiveRoomBlocksStudent ==
    [][last'.op = "joinClassroom" =>
      \A roomId \in DOMAIN classRooms, email \in Emails :
          (~classRooms[roomId].isActive
           /\ JoinClassroomCall(roomId, STUDENT, email))
          => /\ last'.err = ErrInactive
             /\ participants' = participants
             /\ classRooms' = classRooms]_vars

C1_Witness ==
    /\ last = Call("joinClassroom", ErrInactive)
    /\ \E r \in DOMAIN classRooms : ~classRooms[r].isActive

C4_JoinLogsOneEvent ==
    [][last'.op = "joinClassroom" =>
      \A roomId \in RoomInputs, role \in UserRole, email \in Emails :
          JoinClassroomCall(roomId, role, email)
          => IF last'.err = NoError
             THEN classRooms'[roomId].eventLog =
                     Append(classRooms[roomId].eventLog,
                            JoinEvent(JoinedParticipant(email)))
             ELSE classRooms' = classRooms]_vars

\* C5: a joinClassroom that reaches the duplicate check fails with
\* 'Participant already in classroom' exactly when the email has a
\* Participant record that is in this room's teacher or student list, and a
\* failed join leaves the room unchanged.
C5_DuplicateOnlyInThisRoom ==
    [][last'.op = "joinClassroom" =>
      \A roomId \in DOMAIN classRooms, role \in UserRole, email \in Emails :
          (JoinClassroomCall(roomId, role, email)
           /\ ~StudentBlocked(role, classRooms[roomId]))
          => /\ last'.err = ErrDuplicate <=> MemberOf(classRooms[roomId], email)
             /\ last'.err = ErrDuplicate => classRooms' = classRooms]_vars

\* C6: joinClassroom on a roomId with no Classroom fails with
\* 'Class Room does not exist' and changes nothing in the store.
C6_JoinMissingRoom ==
    [][last'.op = "joinClassroom" =>
      \A roomId \in RoomInputs \ DOMAIN classRooms,
          role \in UserRole, email \in Emails :
          JoinClassroomCall(roomId, role, email)
          => last'.err = ErrClassRoomNotFound /\ UNCHANGED store]_vars

C6_Witness ==
    /\ last = Call("joinClassroom", ErrClassRoomNotFound)
    /\ classRooms # <<>>
    /\ participants # <<>>

\* C7: startClass adds one session, owned by roomId, with endedAt unset and
\* currentParticipants = participantsHistory = [teacherId]; the sessions
\* that existed before are unchanged.
C7_StartClassSeedsSession ==
    [][last'.op = "startClass" =>
      \A roomId \in RoomInputs, teacherId \in DOMAIN participants :
          StartClassCall(roomId, teacherId)
          => /\ Len(sessions') = Len(sessions) + 1
             /\ \A x \in DOMAIN sessions : sessions'[x] = sessions[x]
             /\ LET new == sessions'[Len(sessions')]
                IN  /\ new.classRoomId = roomId
                    /\ new.endedAt = NoDate
                    /\ new.currentParticipants = <<teacherId>>
                    /\ new.participantsHistory = <<teacherId>>]_vars

C7_Witness ==
    /\ last = Call("startClass", NoError)
    /\ Len(sessions) >= 2
    /\ sessions[1].endedAt # NoDate
    /\ sessions[Len(sessions)].endedAt = NoDate

\* C8: startClass records one START event, appended to the new session's
\* event log and to the owning classroom's event log.
C8_StartLogsEvent ==
    [][last'.op = "startClass" =>
      \A roomId \in DOMAIN classRooms, teacherId \in DOMAIN participants :
          StartClassCall(roomId, teacherId)
          => /\ sessions'[Len(sessions')].eventLog = <<StartEvent(teacherId)>>
             /\ classRooms'[roomId].eventLog =
                   Append(classRooms[roomId].eventLog, StartEvent(teacherId))]_vars

\* C9: leaveClassSession with role TEACHER on an existing session leaves
\* currentParticipants empty and endedAt set, and appends a LEAVE entry
\* followed by an END entry to the session's event log.
C9_TeacherLeaveEndsSession ==
    [][last'.op = "leaveClassSession" =>
      \A sessionId \in DOMAIN sessions, userId \in DOMAIN participants \cup {NoId} :
          LeaveClassSessionCall(sessionId, userId, TEACHER)
          => /\ last'.err = NoError
             /\ sessions'[sessionId].currentParticipants = <<>>
             /\ sessions'[sessionId].endedAt # NoDate
             /\ sessions'[sessionId].eventLog =
                   sessions[sessionId].eventLog
                   \o <<LeaveEvent(userId), EndEvent(userId)>>]_vars

\* C10: leaveClassSession with role STUDENT on an active session removes
\* userId from currentParticipants and keeps the others in order, leaves
\* endedAt unset, and appends one LEAVE entry to the session's event log.
C10_StudentLeaveRemovesOne ==
    [][last'.op = "leaveClassSession" =>
      \A sessionId \in DOMAIN sessions, userId \in DOMAIN participants \cup {NoId} :
          (sessions[sessionId].endedAt = NoDate
           /\ LeaveClassSessionCall(sessionId, userId, STUDENT))
          => /\ sessions'[sessionId].currentParticipants =
                   SelectSeq(sessions[sessionId].currentParticipants,
                             LAMBDA p : p # userId)
             /\ sessions'[sessionId].endedAt = NoDate
             /\ sessions'[sessionId].eventLog =
                   Append(sessions[sessionId].eventLog, LeaveEvent(userId))]_vars

\* C12: endClass on an existing session empties currentParticipants, sets
\* endedAt and saves, leaving participantsHistory, every other session, the
\* classrooms and the participants as they were; on an absent session it
\* fails with 'Session does not exist' and nothing changes.
C12_EndClassEndsOnlyThatSession ==
    [][last'.op = "endClass" =>
      \A sessionId \in DOMAIN sessions \cup {NoId} :
          EndClassCall(sessionId)
          => IF sessionId \in DOMAIN sessions
             THEN /\ last'.err = NoError
                  /\ DOMAIN sessions' = DOMAIN sessions
                  /\ sessions'[sessionId].currentParticipants = <<>>
                  /\ sessions'[sessionId].endedAt # NoDate
                  /\ sessions'[sessionId].participantsHistory =
                        sessions[sessionId].participantsHistory
                  /\ sessions'[sessionId].classRoomId = sessions[sessionId].classRoomId
                  /\ \A other \in DOMAIN sessions \ {sessionId} :
                        sessions'[other] = sessions[other]
                  /\ UNCHANGED <<classRooms, participants>>
             ELSE /\ last'.err = ErrSessionNotExist
                  /\ UNCHANGED store]_vars

\* an endClass has just ended a session that had live participants recorded
\* in its history
C12_Witness ==
    /\ last = Call("endClass", NoError)
    /\ \E x \in DOMAIN sessions :
          /\ sessions[x].endedAt = SomeDate
          /\ sessions[x].currentParticipants = <<>>
          /\ Len(sessions[x].participantsHistory) >= 2

\* C13: activeSessionsList returns exactly the sessions whose endedAt is
\* unset and activeSessionsListWithRoomId those of them owned by roomId;
\* neither query changes stored state; a session ended by endClass or by a
\* teacher's leaveClassSession is in neither result, in that state and in
\* every later one.
C13_ActiveListsAreTheUnendedSessions ==
    [][/\ last'.op \in {"activeSessionsList", "activeSessionsListWithRoomId"}
          => /\ UNCHANGED store
             /\ Range(ActiveSessions') =
                   {x \in DOMAIN sessions' : sessions'[x].endedAt = NoDate}
             /\ \A roomId \in RoomInputs :
                   Range(ActiveSessionsWithRoomId(roomId)') =
                      {x \in DOMAIN sessions' :
                          /\ sessions'[x].endedAt = NoDate
                          /\ sessions'[x].classRoomId = roomId}
       /\ sessions' # sessions
          => \A x \in DOMAIN sessions :
                /\ x \notin Range(ActiveSessions) => x \notin Range(ActiveSessions')
                /\ last' = Call("endClass", NoError) /\ EndClassCall(x)
                      => x \notin Range(ActiveSessions')
                /\ last' = Call("leaveClassSession", NoError)
                      => \A userId \in DOMAIN participants \cup {NoId} :
                            LeaveClassSessionCall(x, userId, TEACHER)
                            => x \notin Range(ActiveSessions')
                /\ x \notin Range(ActiveSessions')
                      => x \notin Range(ActiveSessionsWithRoomId(sessions[x].classRoomId)')]_vars

\* the list is queried while one session has been ended and another is live
C13_Witness ==
    /\ last.op \in {"activeSessionsList", "activeSessionsListWithRoomId"}
    /\ \E x, y \in DOMAIN sessions :
          /\ sessions[x].endedAt = SomeDate
          /\ x \notin Range(ActiveSessions)
          /\ y \in Range(ActiveSessionsWithRoomId(sessions[y].classRoomId))


\* C14: leaveClassRoom returns the classroom whose list for the given role
\* is the stored list with every entry equal to userId removed and every
\* other entry kept in order, the other role's list untouched, and the
\* stored classroom unchanged.
C14_LeaveClassRoomRemovesUser ==
    [][last' = Call("leaveClassRoom", NoError) =>
      \A roomId \in DOMAIN classRooms, userId \in DOMAIN participants \cup {NoId},
         role \in UserRole :
          LeaveClassRoomCall(roomId, userId, role)
          => LET stored == classRooms[roomId]
                 returned == LeaveRoom(stored, userId, role)
             IN  /\ returned.studentParticipant =
                       IF role = STUDENT
                       THEN RemoveParticipant(stored.studentParticipant, userId)
                       ELSE stored.studentParticipant
                 /\ returned.teacherParticipant =
                       IF role = STUDENT
                       THEN stored.teacherParticipant
                       ELSE RemoveParticipant(stored.teacherParticipant, userId)
                 /\ classRooms' = classRooms]_vars

\* C15: joinSessionViaSessionList for an email that has a Participant record
\* whose id is already in the session's currentParticipants fails with
\* 'User is already in this session somewhere' and changes neither the
\* session nor the classroom.
C15_RejoinIsRejected ==
    [][last'.op = "joinSessionViaSessionList" =>
      \A sessionId \in DOMAIN sessions, email \in Emails, role \in UserRole,
         hasId \in BOOLEAN :
          /\ ClassRoomExists(sessions[sessionId].classRoomId)
          /\ ParticipantFindOne(email) # NoId
          /\ InList(sessions[sessionId].currentParticipants, ParticipantFindOne(email))
          /\ JoinSessionViaSessionListCall(sessionId, email, role, hasId)
          => /\ last'.err = ErrInSession
             /\ UNCHANGED store]_vars

\* C16: after a successful joinSessionViaSessionList the id of the
\* Participant record that was looked up or created (the one returned) is in
\* the session's currentParticipants and participantsHistory, and appears in
\* the owning classroom's current lists exactly once.
C16_JoinedSessionListsReturnedParticipant ==
    [][last' = Call("joinSessionViaSessionList", NoError) =>
      \A sessionId \in DOMAIN sessions, email \in Emails, role \in UserRole,
         hasId \in BOOLEAN :
          JoinSessionViaSessionListCall(sessionId, email, role, hasId)
          => LET pid == JoinedParticipant(email)
                 room == classRooms'[sessions[sessionId].classRoomId]
             IN  /\ InList(sessions'[sessionId].currentParticipants, pid)
                 /\ InList(sessions'[sessionId].participantsHistory, pid)
                 /\ Count(room.studentParticipant, pid)
                      + Count(room.teacherParticipant, pid) = 1]_vars

StartedBy(data) ==
    /\ data.role = TEACHER
    /\ data.userId # NoId
    /\ data.roomId # NoId
    /\ data.sessionId \in DOMAIN sessions
    /\ sessions[data.sessionId].participantsHistory[1] = data.userId

\* C11: whenever the teacher who started a session leaves it through the
\* gateway, by leave-classroom or by disconnect, the session is force-ended:
\* afterwards its endedAt is set and its currentParticipants is empty.
C11_TeacherLeaveThroughGatewayEndsSession ==
    [][handled'.handler \in {"leave-classroom", "disconnect"} =>
      \A s \in SocketIds :
          /\ handled'.socket = s
          /\ StartedBy(sockets[s].data)
          /\ HandleLeaveClassroom(s) \/ HandleDisconnect(s)
          => LET sessionId == sockets[s].data.sessionId
             IN  /\ sessions'[sessionId].endedAt # NoDate
                 /\ sessions'[sessionId].currentParticipants = <<>>]_vars

\* C17: start-class or end-class from a socket whose role is not TEACHER, or
\* which holds no roomId or userId, never reaches the service: no method is
\* invoked, no session is created or ended, nothing is broadcast to the
\* room, and the socket receives an error event.
C17_OnlyTeachersReachStartAndEnd ==
    [][handled'.handler \in {"start-class", "end-class"} =>
      \A s \in SocketIds :
          /\ handled'.socket = s
          /\ \/ sockets[s].data.role # TEACHER
             \/ sockets[s].data.roomId = NoId
             \/ sockets[s].data.userId = NoId
          /\ HandleStartClass(s) \/ HandleEndClass(s)
          => /\ handled'.core = "none"
             /\ UNCHANGED <<classRooms, participants, sessions, last>>
             /\ handled'.toRoom = {}
             /\ handled'.toSocket = {"error"}]_vars

\* a student's socket has asked to start or end the class while the room has
\* a live session
C17_Witness ==
    /\ handled.handler \in {"start-class", "end-class"}
    /\ handled.core = "none"
    /\ handled.toSocket = {"error"}
    /\ sockets[handled.socket].data.role = STUDENT
    /\ sockets[handled.socket].data.roomId \in DOMAIN classRooms
    /\ \E x \in DOMAIN sessions : sessions[x].endedAt = NoDate

\* C18: on disconnect of a socket that holds roomId, userId and sessionId the
\* gateway invokes leaveClassSession for that session and user, and emits
\* nothing to the socket, an error included; on disconnect of a socket
\* missing any of the three no service method is invoked and the store does
\* not change.
C18_DisconnectLeavesSessionQuietly ==
    [][handled'.handler = "disconnect" =>
      \A s \in SocketIds :
          handled'.socket = s /\ HandleDisconnect(s)
          => LET data == sockets[s].data
             IN  /\ handled'.toSocket = {}
                 /\ IF data.roomId # NoId /\ data.userId # NoId
                       /\ data.sessionId # NoId
                    THEN /\ handled'.core = "leaveClassSession"
                         /\ last'.op = "leaveClassSession"
                         /\ LeaveClassSessionCall(data.sessionId, data.userId, NoRole)
                    ELSE /\ handled'.core = "none"
                         /\ UNCHANGED <<classRooms, participants, sessions, last>>]_vars

\* the socket that started a session has disconnected and is no longer among
\* the session's participants
C18_Witness ==
    /\ handled.handler = "disconnect"
    /\ handled.core = "leaveClassSession"
    /\ handled.toSocket = {}
    /\ ~sockets[handled.socket].connected
    /\ LET data == sockets[handled.socket].data
       IN  /\ data.sessionId \in DOMAIN sessions
           /\ ~InList(sessions[data.sessionId].currentParticipants, data.userId)
           /\ InList(sessions[data.sessionId].participantsHistory, data.userId)


(* ------------------------- state consistency -------------------------- *)
\* C25: in every reachable state a session whose endedAt is set has empty
\* currentParticipants.
C25_EndedSessionIsEmpty ==
    \A x \in DOMAIN sessions :
        sessions[x].endedAt # NoDate => sessions[x].currentParticipants = <<>>

\* C26: in every reachable state a room has at most one active session
\* (endedAt unset), start-class on a room with an active session included.
C26_OneActiveSessionPerRoom ==
    \A x, y \in DOMAIN sessions :
        /\ sessions[x].classRoomId = sessions[y].classRoomId
        /\ sessions[x].endedAt = NoDate
        /\ sessions[y].endedAt = NoDate
        => x = y

\* every entry of the list is a Participant with the given stored role
AllHaveRole(list, role) ==
    \A i \in DOMAIN list :
        list[i] \in DOMAIN participants /\ participants[list[i]].role = role

\* C27: in every reachable state each member of a classroom's
\* teacherParticipant is a Participant whose stored role is TEACHER and each
\* member of studentParticipant one whose stored role is STUDENT.
C27_ListsMatchStoredRole ==
    \A roomId \in DOMAIN classRooms :
        /\ AllHaveRole(classRooms[roomId].teacherParticipant, TEACHER)
        /\ AllHaveRole(classRooms[roomId].studentParticipant, STUDENT)

IsPrefix(s, t) == Len(s) <= Len(t) /\ SubSeq(t, 1, Len(s)) = s

\* C28: every id in a session's currentParticipants occurs in its
\* participantsHistory, every id in a classroom's teacherParticipant or
\* studentParticipant occurs in its participantHistory, and both histories
\* only grow: the history before a step is a prefix of the one after it.
C28_CurrentWithinGrowingHistory ==
    [][/\ \A x \in DOMAIN sessions' :
             Range(sessions'[x].currentParticipants)
                \subseteq Range(sessions'[x].participantsHistory)
       /\ \A r \in DOMAIN classRooms' :
             CurrentMembers(classRooms'[r])
                \subseteq Range(classRooms'[r].participantHistory)
       /\ \A x \in DOMAIN sessions :
             /\ x \in DOMAIN sessions'
             /\ IsPrefix(sessions[x].participantsHistory,
                         sessions'[x].participantsHistory)
       /\ \A r \in DOMAIN classRooms :
             /\ r \in DOMAIN classRooms'
             /\ IsPrefix(classRooms[r].participantHistory,
                         classRooms'[r].participantHistory)]_vars

\* a session whose history has grown past its starter, with a participant
\* who joined it and left again, in a room that has members
C28_Witness ==
    \E x \in DOMAIN sessions :
        /\ Len(sessions[x].participantsHistory) >= 2
        /\ sessions[x].currentParticipants # <<>>
        /\ Range(sessions[x].currentParticipants)
              # Range(sessions[x].participantsHistory)
        /\ ClassRoomExists(sessions[x].classRoomId)
        /\ CurrentMembers(classRooms[sessions[x].classRoomId]) # {}

C22_SaveAfterCheckListsAgain ==
    [][\A p \in Procs :
          At(p, "joinClassroom", "saveClassroom") /\ procs'[p] = Idle =>
             LET room == classRooms[procs[p].roomId]
                 room2 == classRooms'[procs[p].roomId]
                 id == procs[p].id
             IN  /\ last' = Call("joinClassroom", NoError)
                 /\ Count(room2.teacherParticipant \o room2.studentParticipant,
                          id)
                      = Count(room.teacherParticipant \o room.studentParticipant,
                              id) + 1]_vars

\* two joinClassroom calls of one person both succeeded: the person is
\* twice in the room's teachers
C22_Witness ==
    /\ last = Call("joinClassroom", NoError)
    /\ \E r \in DOMAIN classRooms, id \in DOMAIN participants :
           Count(classRooms[r].teacherParticipant, id) = 2

\* C23: a leaveClassSession of a student that loaded the session before a
\* joinSessionViaSessionList stored its push, and saves after it, loses an
\* update: the stored currentParticipants is neither what leave-then-join
\* nor what join-then-leave would have stored.
C23_LeaveAcrossJoinLosesAnUpdate ==
    [][\A p \in Procs :
          At(p, "leaveClassSession", "save") /\ procs'[p] = Idle =>
             LET loaded == procs[p].loaded
                 stored == sessions[procs[p].sessionId]
                 userId == procs[p].id
                 role == procs[p].role
                 before == loaded.currentParticipants
                 now == stored.currentParticipants
                 pushed == SubSeq(now, Len(before) + 1, Len(now))
                 leaveThenJoin ==
                     LeaveSession(loaded, userId, role).currentParticipants
                        \o pushed
                 joinThenLeave ==
                     LeaveSession(stored, userId, role).currentParticipants
             IN  /\ role # TEACHER
                 /\ stored.endedAt = loaded.endedAt
                 /\ IsPrefix(before, now)
                 /\ pushed # <<>>
                 /\ userId \in Range(before)
                 /\ userId \notin Range(pushed)
                 => sessions'[procs[p].sessionId].currentParticipants
                       \notin {leaveThenJoin, joinThenLeave}]_vars

\* a leave that loaded the session before a join was stored has failed at
\* its save: leaver and joiner are both current in the running session
C23_Witness ==
    /\ last = Call("leaveClassSession", ErrVersion)
    /\ \E x \in DOMAIN sessions :
           /\ sessions[x].endedAt = NoDate
           /\ Len(sessions[x].currentParticipants) >= 2

\* C24: no step, of a whole call or of an interleaved one, unsets an endedAt
\* that is set, and no step removes a session.
C24_EndedStaysEnded ==
    [][\A x \in DOMAIN sessions :
          /\ x \in DOMAIN sessions'
          /\ sessions[x].endedAt # NoDate => sessions'[x].endedAt # NoDate]_vars

\* an ended session that a later call has written: it has a current
\* participant again
C24_Witness ==
    \E x \in DOMAIN sessions :
        /\ sessions[x].endedAt # NoDate
        /\ sessions[x].currentParticipants # <<>>

====
